---- MODULE Spec2Model ----
(***************************************************************************)
(* Model of ah_shell/mod.py: the four commands execute_command, mkdir,     *)
(* tree and run_python, with the file system, the ignore-file parser, the  *)
(* directory walk (os.walk), the path join (os.path.join) and the glob     *)
(* match (fnmatch) they rest on.                                           *)
(*                                                                         *)
(* A path STRING is a sequence of tokens: a name, or the separator "/".    *)
(*   '/proj/src' is <<"/", "proj", "/", "src">>, '' is <<>>.               *)
(* A file system LOCATION is the sequence of the names from "/" down.      *)
(***************************************************************************)
EXTENDS Integers, Sequences, FiniteSets, TLC

VARIABLES
    fs,               \* the file system: entries in creation order
    DEFAULT_EXCLUDE,  \* mod.py:11, the module-level list of built-in patterns
    matches,          \* tree(): the ignore predicate built by the latest call
    since,            \* the latest tree() call since the file system last changed
    prev,             \* the tree() call before `since`, same file system
    cmd_ret,          \* what the latest execute_command() did
    host,             \* which interpreters are on PATH
    tmpfiles,         \* the files of /tmp that exist
    py_ret            \* what the latest run_python() did

vars == <<fs, DEFAULT_EXCLUDE, matches, since, prev, cmd_ret, host, tmpfiles, py_ret>>

treeVars == <<fs, DEFAULT_EXCLUDE, matches, since, prev>>
cmdVars == <<cmd_ret>>
pyVars == <<host, tmpfiles, py_ret>>

\* ------------------------------------------------------------------ bounds
\* The most entries the file system holds (the working directory included).
MaxEntries == 4
\* The most temporary files /tmp holds before run_python is no longer called.
MaxTmp == 2

\* ------------------------------------------------------------- path strings
SEP == "/"

\* The working directory of the process, a location.
Cwd == <<"proj">>

\* os.path.join(a, b) of posixpath, on two arguments.
join(a, b) ==
    IF b # <<>> /\ Head(b) = SEP THEN b
    ELSE IF a = <<>> \/ a[Len(a)] = SEP THEN a \o b
    ELSE a \o <<SEP>> \o b

\* fnmatch.fnmatch(name, pat): the whole of name against the whole of pat; the
\* token "*" of a pattern matches any run of tokens, separators included, and
\* every other token matches itself alone (posix normcase changes nothing).
RECURSIVE fnmatch(_, _)
fnmatch(name, pat) ==
    IF pat = <<>> THEN name = <<>>
    ELSE IF Head(pat) = "*"
         THEN fnmatch(name, Tail(pat)) \/ (name # <<>> /\ fnmatch(Tail(name), pat))
    ELSE name # <<>> /\ Head(name) = Head(pat) /\ fnmatch(Tail(name), Tail(pat))

\* The names of a path string, separators dropped.
Components(p) == SelectSeq(p, LAMBDA t : t # SEP)

\* The location a path string names: an absolute string from "/", a relative
\* one from the working directory.
Resolve(p) ==
    IF p # <<>> /\ Head(p) = SEP THEN Components(p) ELSE Cwd \o Components(p)

IsPrefix(a, b) == Len(a) <= Len(b) /\ SubSeq(b, 1, Len(a)) = a

\* --------------------------------------------------------------- file system
\* An entry of the file system: where it is, what it is, whether its mode lets
\* it be read and searched, and (for an ignore file) the rules it holds.
FsEntry(path, kind, readable, rules) ==
    [path |-> path, kind |-> kind, readable |-> readable, rules |-> rules]

Parent(loc) == SubSeq(loc, 1, Len(loc) - 1)

Name(loc) == loc[Len(loc)]

HasEntry(loc) == \E i \in DOMAIN fs : fs[i].path = loc

EntryAt(loc) == fs[CHOOSE i \in DOMAIN fs : fs[i].path = loc]

\* "/" itself is a directory that can always be read.
IsDirAt(loc) == loc = <<>> \/ (HasEntry(loc) /\ EntryAt(loc).kind = "dir")

ReadableAt(loc) == loc = <<>> \/ (HasEntry(loc) /\ EntryAt(loc).readable)

\* Every directory above loc is a directory whose mode lets it be searched.
Reachable(loc) ==
    \A n \in 0 .. Len(loc) - 1 :
        IsDirAt(SubSeq(loc, 1, n)) /\ ReadableAt(SubSeq(loc, 1, n))

\* os.path.exists(p): '' names nothing; a path under a directory that cannot
\* be searched cannot be stat'ed and so does not "exist".
exists(p) ==
    /\ p # <<>>
    /\ Resolve(p) = <<>> \/ HasEntry(Resolve(p))
    /\ Reachable(Resolve(p))

\* os.scandir(p) succeeds: p is a directory that can be reached and read.
\* scandir('') raises FileNotFoundError.
scandir_ok(p) ==
    /\ exists(p)
    /\ IsDirAt(Resolve(p))
    /\ ReadableAt(Resolve(p))

\* The entries of one kind right under a location, in directory order (the
\* order of creation), by name.
RECURSIVE NamesOf(_, _, _)
NamesOf(entries, loc, kind) ==
    IF entries = <<>> THEN <<>>
    ELSE LET e == Head(entries)
             rest == NamesOf(Tail(entries), loc, kind)
         IN IF Len(e.path) > 0 /\ Parent(e.path) = loc /\ e.kind = kind
            THEN <<Name(e.path)>> \o rest
            ELSE rest

\* --------------------------------------------------- the ignore-file parser
\* One rule of an ignore file: a bare name, or its negation "!name".
Rule(name, negation) == [name |-> name, negation |-> negation]

\* matches = lambda path: False (mod.py:81)
NoMatches == [parsed |-> FALSE, base |-> <<>>, rules |-> <<>>]

\* parse_gitignore(full_path): the predicate of the rules of the file, with the
\* directory of the file as the base the rules are relative to.
parse_gitignore(full_path) ==
    [parsed |-> TRUE,
     base |-> Parent(Resolve(full_path)),
     rules |-> EntryAt(Resolve(full_path)).rules]

\* The rule, last to first, that decides a path: a bare-name rule matches a
\* path under the base whose last name is the rule's name; the latest rule that
\* matches wins, and a negated rule answers "not ignored".
RECURSIVE LastRule(_, _)
LastRule(rules, name) ==
    IF rules = <<>> THEN FALSE
    ELSE IF rules[Len(rules)].name = name THEN ~rules[Len(rules)].negation
    ELSE LastRule(SubSeq(rules, 1, Len(rules) - 1), name)

\* matches(path): the call of the predicate tree() built.
CallMatches(m, path) ==
    /\ m.parsed
    /\ IsPrefix(m.base, Resolve(path))
    /\ Len(Resolve(path)) > Len(m.base)
    /\ LastRule(m.rules, Name(Resolve(path)))

\* ------------------------------------------------------------------- tree()
\* A mutant of should_exclude: the two sources joined by "and".
should_exclude_both(path, m) ==
    /\ \E i \in DOMAIN DEFAULT_EXCLUDE : fnmatch(path, DEFAULT_EXCLUDE[i])
    /\ CallMatches(m, path)

\* should_exclude(path, matches), mod.py:66-67.
should_exclude(path, m) ==
    \/ \E i \in DOMAIN DEFAULT_EXCLUDE : fnmatch(path, DEFAULT_EXCLUDE[i])
    \/ CallMatches(m, path)

\* A mutant of build_matches: the predicate of an earlier call is kept.
build_matches_cached(directory) ==
    IF matches.parsed THEN matches
    ELSE IF exists(join(directory, <<".gitignore">>))
         THEN parse_gitignore(join(directory, <<".gitignore">>))
         ELSE NoMatches

\* mod.py:77-81: the ignore predicate of this call.
build_matches(directory) ==
    IF exists(join(directory, <<".gitignore">>))
    THEN parse_gitignore(join(directory, <<".gitignore">>))
    ELSE NoMatches

\* The names of a list that survive the filter, mod.py:86 and 87.
keep(root, names, m) ==
    SelectSeq(names, LAMBDA n : ~should_exclude(join(root, <<n>>), m))

\* A mutant of walk_dirs: `dirs = [...]` rebinds the name, and os.walk goes on
\* with the list it made.
walk_dirs_rebound(listed, kept) == listed

\* `dirs[:] = [...]` (mod.py:86) changes in place the list os.walk descends
\* into: the walk goes on with the names kept.
walk_dirs(listed, kept) == kept

TreeNode(root, dirs, files) == [root |-> root, dirs |-> dirs, files |-> files]

\* list_dir(dir_path), mod.py:83-93: os.walk top-down with onerror=None and
\* followlinks=False, and the body of the loop run on each triple. A directory
\* that scandir cannot list yields nothing and the error is dropped.
RECURSIVE list_dir(_, _)
RECURSIVE list_each(_, _, _)
list_dir(dir_path, m) ==
    IF ~scandir_ok(dir_path) THEN <<>>
    ELSE LET listed == NamesOf(fs, Resolve(dir_path), "dir")
             dirs == keep(dir_path, listed, m)
             files == keep(dir_path, NamesOf(fs, Resolve(dir_path), "file"), m)
         IN <<TreeNode(dir_path, dirs, files)>>
            \o list_each(dir_path, walk_dirs(listed, dirs), m)

list_each(root, dirs, m) ==
    IF dirs = <<>> THEN <<>>
    ELSE list_dir(join(root, <<Head(dirs)>>), m) \o list_each(root, Tail(dirs), m)

\* The context argument: None, or an object whose data may hold current_dir.
Context(given, has, current_dir) ==
    [given |-> given, has |-> has, current_dir |-> current_dir]

\* mod.py:75-76: the directory the walk starts from.
effective(directory, context) ==
    IF context.has THEN join(context.current_dir, directory) ELSE directory

NoCall == [called |-> FALSE]

TreeCall(directory, context, raised, root, nodes) ==
    [called |-> TRUE, directory |-> directory, context |-> context,
     raised |-> raised, root |-> root, nodes |-> nodes]

SameArgs(a, b) ==
    a.called /\ b.called /\ a.directory = b.directory /\ a.context = b.context

\* The directories and contexts tree() is called with.
TreeDirs == {<<>>, <<"src">>, <<SEP, "proj">>}

TreeContexts ==
    {Context(FALSE, FALSE, <<>>), Context(TRUE, FALSE, <<>>),
     Context(TRUE, TRUE, <<SEP, "proj">>)}

\* tree(directory, context), mod.py:70-96. With context=None the test of
\* mod.py:75 raises AttributeError before anything is built.
Tree(directory, context) ==
    /\ IF ~context.given
       THEN /\ since' = TreeCall(directory, context, TRUE, <<>>, <<>>)
            /\ UNCHANGED matches
       ELSE LET root == effective(directory, context)
                m == build_matches(root)
            IN /\ matches' = m
               /\ since' = TreeCall(directory, context, FALSE, root, list_dir(root, m))
    /\ prev' = IF since.called /\ since.directory = directory /\ since.context = context
               THEN since ELSE NoCall
    /\ UNCHANGED <<fs, DEFAULT_EXCLUDE, cmdVars, pyVars>>

\* ------------------------------------------------------------------ mkdir()
\* The locations from "/" down to loc that have no entry yet, shortest first.
Missing(loc) ==
    SelectSeq([n \in 1 .. Len(loc) |-> SubSeq(loc, 1, n)], LAMBDA q : ~HasEntry(q))

\* os.makedirs(path, exist_ok=True) succeeds: the path is not '', everything
\* that exists on the way is a directory that can be searched, and the
\* directory the first new one goes into can be written.
makedirs_ok(path) ==
    /\ path # <<>>
    /\ \A n \in 0 .. Len(Resolve(path)) :
          LET q == SubSeq(Resolve(path), 1, n)
          IN (q = <<>> \/ HasEntry(q)) =>
                /\ IsDirAt(q)
                /\ (n < Len(Resolve(path)) => ReadableAt(q))

makedirs(path) ==
    fs \o [n \in 1 .. Len(Missing(Resolve(path))) |->
              FsEntry(Missing(Resolve(path))[n], "dir", TRUE, <<>>)]

\* The paths mkdir() is called with.
MkdirPaths ==
    {<<>>, <<"src">>, <<SEP, "proj", SEP, ".git">>,
     <<SEP, "proj", SEP, "src", SEP, "node_modules">>}

\* The string mkdir() returns, mod.py:62 and 64.
mkdir_message(absolute_path) ==
    IF makedirs_ok(absolute_path)
    THEN <<"Directory '">> \o absolute_path \o <<"' created successfully.">>
    ELSE <<"Failed to create directory '">> \o absolute_path \o <<"': ", "OSError">>

\* mkdir(absolute_path), mod.py:55-64: the directories are made, or nothing
\* is; either way a string is returned to the caller.
Mkdir(absolute_path) ==
    /\ Len(fs) + Len(Missing(Resolve(absolute_path))) <= MaxEntries
    /\ fs' = IF makedirs_ok(absolute_path) THEN makedirs(absolute_path) ELSE fs
    /\ mkdir_message(absolute_path) # <<>>
    /\ since' = IF fs' = fs THEN since ELSE NoCall
    /\ prev' = IF fs' = fs THEN prev ELSE NoCall
    /\ UNCHANGED <<DEFAULT_EXCLUDE, matches, cmdVars, pyVars>>

\* ------------------------------------------- the file system's other writers
\* The ignore files that get written.
IgnoreFiles ==
    {<<Rule("a.py", FALSE)>>, <<Rule("src", FALSE), Rule(".git", TRUE)>>}

\* Some process creates a regular file.
FsCreateFile(dir, name) ==
    /\ Len(fs) < MaxEntries
    /\ HasEntry(dir) /\ IsDirAt(dir)
    /\ ~HasEntry(dir \o <<name>>)
    /\ fs' = Append(fs, FsEntry(dir \o <<name>>, "file", TRUE, <<>>))
    /\ since' = NoCall /\ prev' = NoCall
    /\ UNCHANGED <<DEFAULT_EXCLUDE, matches, cmdVars, pyVars>>

\* Some process writes the ignore file of a directory, new or in place.
FsWriteIgnore(dir, rules) ==
    /\ HasEntry(dir) /\ IsDirAt(dir)
    /\ IF HasEntry(dir \o <<".gitignore">>)
       THEN /\ EntryAt(dir \o <<".gitignore">>).rules # rules
            /\ fs' = [i \in DOMAIN fs |->
                        IF fs[i].path = dir \o <<".gitignore">>
                        THEN [fs[i] EXCEPT !.rules = rules] ELSE fs[i]]
       ELSE /\ Len(fs) < MaxEntries
            /\ fs' = Append(fs, FsEntry(dir \o <<".gitignore">>, "file", TRUE, rules))
    /\ since' = NoCall /\ prev' = NoCall
    /\ UNCHANGED <<DEFAULT_EXCLUDE, matches, cmdVars, pyVars>>

\* Some process changes the mode of a directory: no access, or full access.
FsChmod(dir) ==
    /\ HasEntry(dir) /\ IsDirAt(dir)
    /\ fs' = [i \in DOMAIN fs |->
                IF fs[i].path = dir THEN [fs[i] EXCEPT !.readable = ~@] ELSE fs[i]]
    /\ since' = NoCall /\ prev' = NoCall
    /\ UNCHANGED <<DEFAULT_EXCLUDE, matches, cmdVars, pyVars>>

\* The directories and file names the other writers use.
FsDirs == {<<"proj">>, <<"proj", "src">>}

FsFiles == {"a.py"}

ChmodDirs == {<<"proj", "src">>}

\* ------------------------------------------------------------ specifications
\* The state all the commands start from: the working directory alone.
InitShell ==
    /\ fs = <<FsEntry(Cwd, "dir", TRUE, <<>>)>>
    /\ DEFAULT_EXCLUDE = <<<<".git">>, <<"node_modules">>, <<"dist">>, <<"build">>,
                           <<"coverage">>, <<"__pycache__">>, <<".ipynb_checkpoints">>>>
    /\ matches = NoMatches
    /\ since = NoCall
    /\ prev = NoCall
    /\ cmd_ret = NoCall
    /\ tmpfiles = {}
    /\ py_ret = NoCall

Init ==
    /\ InitShell
    /\ host = [python |-> TRUE, python3 |-> TRUE]

Next ==
    \/ \E d \in TreeDirs, c \in TreeContexts : Tree(d, c)
    \/ \E p \in MkdirPaths : Mkdir(p)
    \/ \E d \in FsDirs, n \in FsFiles : FsCreateFile(d, n)
    \/ \E d \in FsDirs, r \in IgnoreFiles : FsWriteIgnore(d, r)
    \/ \E d \in ChmodDirs : FsChmod(d)

\* The file system, mkdir() and tree().
Spec == Init /\ [][Next]_vars

\* ------------------------------------------------- the results of tree()
\* The latest tree() call returned a list of nodes.
Returned(c) == c.called /\ ~c.raised

Range(q) == {q[i] : i \in DOMAIN q}

\* The path string the walk tests for the entry at loc, below the root string:
\* the root joined with each name on the way down, as os.walk and mod.py:86-87
\* join them.
RECURSIVE Joined(_, _)
Joined(root, names) ==
    IF names = <<>> THEN root ELSE Joined(join(root, <<Head(names)>>), Tail(names))

Below(root, loc) == SubSeq(loc, Len(Resolve(root)) + 1, Len(loc))

\* The entries of the file system strictly under the root of a call.
Under(root) ==
    {i \in DOMAIN fs :
        IsPrefix(Resolve(root), fs[i].path) /\ Len(fs[i].path) > Len(Resolve(root))}

\* The directories of the subtree of a root, the root included, as locations.
DirsOfSubtree(root) ==
    {Resolve(root)} \cup {fs[i].path : i \in {j \in Under(root) : fs[j].kind = "dir"}}

BuiltInName(n) == \E i \in DOMAIN DEFAULT_EXCLUDE : DEFAULT_EXCLUDE[i] = <<n>>

BuiltInMatch(path) == \E i \in DOMAIN DEFAULT_EXCLUDE : fnmatch(path, DEFAULT_EXCLUDE[i])

NodesAt(nodes, loc) == {k \in DOMAIN nodes : Resolve(nodes[k].root) = loc}

\* C1: an entry under the root whose name is a built-in pattern is in no
\* dirs/files list of its parent's node, and no node has a root at or beneath
\* it, whatever the root string is.
C1_BuiltInNamesAbsent ==
    Returned(since) =>
        \A i \in Under(since.root) :
            BuiltInName(Name(fs[i].path)) =>
                /\ \A k \in NodesAt(since.nodes, Parent(fs[i].path)) :
                      /\ Name(fs[i].path) \notin Range(since.nodes[k].dirs)
                      /\ Name(fs[i].path) \notin Range(since.nodes[k].files)
                /\ \A k \in DOMAIN since.nodes :
                      ~IsPrefix(fs[i].path, Resolve(since.nodes[k].root))

\* C2: when the root cannot be enumerated, or a directory the walk goes into
\* cannot, tree() ends in a failure and returns no list.
C2_EnumerationFailureIsReported ==
    (/\ since.called
     /\ since.context.given
     /\ \/ ~scandir_ok(effective(since.directory, since.context))
        \/ \E k \in DOMAIN since.nodes : \E d \in Range(since.nodes[k].dirs) :
              ~scandir_ok(join(since.nodes[k].root, <<d>>)))
        => since.raised

\* The premise of C4: the root is a directory, it has no .gitignore, and no
\* entry under it has a joined path that a built-in pattern matches.
PlainTree(root) ==
    /\ exists(root)
    /\ IsDirAt(Resolve(root))
    /\ ~HasEntry(Resolve(root) \o <<".gitignore">>)
    /\ \A i \in Under(root) : ~BuiltInMatch(Joined(root, Below(root, fs[i].path)))

\* The nodes are in pre-order: a node comes before the nodes beneath it, and
\* two nodes of which neither is above the other come in the order the dirs
\* list of their closest common ancestor gives their branches.
Position(q, x) == CHOOSE p \in DOMAIN q : q[p] = x

CommonLen(a, b) ==
    CHOOSE n \in 0 .. Len(a) :
        /\ n <= Len(b)
        /\ SubSeq(a, 1, n) = SubSeq(b, 1, n)
        /\ (n < Len(a) /\ n < Len(b)) => a[n + 1] # b[n + 1]

PreOrder(nodes) ==
    \A i, k \in DOMAIN nodes :
        LET a == Resolve(nodes[i].root)
            b == Resolve(nodes[k].root)
            n == CommonLen(a, b)
        IN i < k =>
            /\ ~IsPrefix(b, a)
            /\ ~IsPrefix(a, b) =>
                  \E j \in NodesAt(nodes, SubSeq(a, 1, n)) :
                      /\ a[n + 1] \in Range(nodes[j].dirs)
                      /\ b[n + 1] \in Range(nodes[j].dirs)
                      /\ Position(nodes[j].dirs, a[n + 1]) < Position(nodes[j].dirs, b[n + 1])

\* One node per directory of the subtree, with every name of the directory in
\* its lists once, in pre-order.
WholeTree(root, nodes) ==
    /\ \A loc \in DirsOfSubtree(root) : Cardinality(NodesAt(nodes, loc)) = 1
    /\ \A k \in DOMAIN nodes :
          /\ Resolve(nodes[k].root) \in DirsOfSubtree(root)
          /\ nodes[k].dirs = NamesOf(fs, Resolve(nodes[k].root), "dir")
          /\ nodes[k].files = NamesOf(fs, Resolve(nodes[k].root), "file")
    /\ PreOrder(nodes)

\* C4: for a tree with no .gitignore at the root and no joined path that a
\* built-in pattern matches, tree() returns one node per directory, every name
\* once, in pre-order.
C4_PlainTreeIsWalkedWhole ==
    (Returned(since) /\ PlainTree(since.root)) => WholeTree(since.root, since.nodes)

\* Every directory of the subtree of the root can be enumerated.
Enumerable(root) ==
    \A loc \in DirsOfSubtree(root) : ReadableAt(loc) /\ Reachable(loc)

\* What the code does do for C4: the same, for the trees all of whose
\* directories can be enumerated.
PlainEnumerableTreeIsWalkedWhole ==
    (Returned(since) /\ PlainTree(since.root) /\ Enumerable(since.root))
        => WholeTree(since.root, since.nodes)

\* C10: the first node is the root; every later node is join(P.root, d) for
\* exactly one earlier node P and name d of P.dirs; every name of a dirs list
\* has exactly one later node.
C10_NodesAndDirsCorrespond ==
    (Returned(since) /\ scandir_ok(since.root)) =>
        LET nodes == since.nodes
        IN /\ nodes # <<>> /\ nodes[1].root = since.root
           /\ \A k \in DOMAIN nodes : k > 1 =>
                 Cardinality({jp \in {<<j, p>> : j \in 1 .. k - 1, p \in 1 .. MaxEntries} :
                     /\ jp[2] \in DOMAIN nodes[jp[1]].dirs
                     /\ nodes[k].root = join(nodes[jp[1]].root, <<nodes[jp[1]].dirs[jp[2]]>>)})
                 = 1
           /\ \A j \in DOMAIN nodes : \A p \in DOMAIN nodes[j].dirs :
                 Cardinality({k \in DOMAIN nodes :
                     k > j /\ nodes[k].root = join(nodes[j].root, <<nodes[j].dirs[p]>>)})
                 = 1

\* What the code does do for C10: the same, for the trees all of whose
\* directories can be enumerated.
EnumerableNodesAndDirsCorrespond ==
    (Returned(since) /\ Enumerable(since.root)) => C10_NodesAndDirsCorrespond

\* C5: a subdirectory d of a visited directory R with should_exclude(join(R, d))
\* is never gone into: no node has a root at join(R, d) or beneath it.
C5_PrunedBeforeDescent ==
    Returned(since) =>
        \A k \in DOMAIN since.nodes :
            \A d \in Range(NamesOf(fs, Resolve(since.nodes[k].root), "dir")) :
                should_exclude(join(since.nodes[k].root, <<d>>), matches) =>
                    \A n \in DOMAIN since.nodes :
                        ~IsPrefix(Resolve(join(since.nodes[k].root, <<d>>)),
                                  Resolve(since.nodes[n].root))

\* C5's case: an excluded subdirectory of a visited directory holds a
\* directory that the filter itself would keep.
C5_Witness ==
    /\ Returned(since)
    /\ \E k \in DOMAIN since.nodes :
          \E d \in Range(NamesOf(fs, Resolve(since.nodes[k].root), "dir")) :
              LET sub == join(since.nodes[k].root, <<d>>)
              IN /\ should_exclude(sub, matches)
                 /\ \E e \in Range(NamesOf(fs, Resolve(sub), "dir")) :
                       ~should_exclude(join(sub, <<e>>), matches)

C8_NoStateBetweenCalls ==
    /\ SameArgs(prev, since) =>
          /\ prev.raised = since.raised
          /\ prev.root = since.root
          /\ prev.nodes = since.nodes
    /\ Returned(since) =>
          IF exists(join(since.root, <<".gitignore">>))
          THEN /\ matches.parsed
               /\ matches.rules = EntryAt(Resolve(join(since.root, <<".gitignore">>))).rules
          ELSE matches = NoMatches
    /\ DEFAULT_EXCLUDE = <<<<".git">>, <<"node_modules">>, <<"dist">>, <<"build">>,
                           <<"coverage">>, <<"__pycache__">>, <<".ipynb_checkpoints">>>>

\* C8's case: the second of two calls with the same arguments, on a tree of two
\* nodes or more, under a parsed .gitignore.
C8_Witness ==
    /\ SameArgs(prev, since)
    /\ Returned(since)
    /\ Len(since.nodes) >= 2
    /\ matches.parsed

\* ------------------------------------------------------------ subprocesses
\* bytes.decode('utf-8') on the bytes the model uses: an ASCII byte is its
\* character, 0xC3 and a continuation byte are one character, and any other
\* byte ends the decoding with UnicodeDecodeError.
Chr(b) == CASE b = 101 -> "e" [] b = 111 -> "o" [] OTHER -> "?"

RECURSIVE decode(_)
decode(bytes) ==
    IF bytes = <<>> THEN [ok |-> TRUE, text |-> <<>>]
    ELSE IF Head(bytes) < 128
         THEN LET rest == decode(Tail(bytes))
              IN [ok |-> rest.ok, text |-> <<Chr(Head(bytes))>> \o rest.text]
    ELSE IF Head(bytes) = 195 /\ Len(bytes) >= 2 /\ bytes[2] >= 128 /\ bytes[2] < 192
         THEN LET rest == decode(SubSeq(bytes, 3, Len(bytes)))
              IN [ok |-> rest.ok, text |-> <<"\\u00e9">> \o rest.text]
    ELSE [ok |-> FALSE, text |-> <<>>]

\* str() of an exit code, as the f-strings format it.
str(rc) == CASE rc = 0 -> "0" [] rc = 1 -> "1" [] rc = 2 -> "2" [] OTHER -> "-9"

\* What the streams of a process hold, and how it exits.
Streams == {<<>>, <<111>>, <<195, 169>>, <<255>>}

ErrStreams == {<<>>, <<101>>, <<255>>}

ExitCodes == {0, 1, 2, -9}

\* What happens to the process: it runs, it cannot be started, or the task
\* awaiting it is cancelled.
Faults == {"none", "OSError", "CancelledError"}

\* --------------------------------------------------------- execute_command()
Cmds == {<<"ls">>, <<"ls", " ", "-la">>, <<"false">>}

\* A mutant of command_result: stderr is looked at before the exit code.
command_result_stderr_first(cmd, rc, error, output) ==
    IF error # <<>>
    THEN <<"Command executed with stderr output:\n">> \o error \o <<"\nStdout:\n">> \o output
    ELSE IF rc # 0
    THEN <<"Command '">> \o cmd \o <<"' failed with error code ", str(rc), ":\nStderr:\n">>
         \o error \o <<"\nStdout:\n">> \o output
    ELSE output

\* mod.py:46-50: the string of a process that ran and whose output decoded.
command_result(cmd, rc, error, output) ==
    IF rc # 0
    THEN <<"Command '">> \o cmd \o <<"' failed with error code ", str(rc), ":\nStderr:\n">>
         \o error \o <<"\nStdout:\n">> \o output
    ELSE IF error # <<>>
    THEN <<"Command executed with stderr output:\n">> \o error \o <<"\nStdout:\n">> \o output
    ELSE output

\* mod.py:51-52: the string of an exception caught.
command_failed(cmd, e) == <<"Command '">> \o cmd \o <<"' failed with error: ", e>>

CmdCall(cmd, fault, rc, stdout, stderr, raised, value) ==
    [called |-> TRUE, cmd |-> cmd, fault |-> fault, rc |-> rc, stdout |-> stdout,
     stderr |-> stderr, raised |-> raised, value |-> value]

\* execute_command(cmd), mod.py:37-52. CancelledError is no Exception and goes
\* through the handler to the caller.
ExecuteCommand(cmd, fault, rc, stdout, stderr) ==
    /\ cmd_ret' =
          IF fault = "CancelledError"
          THEN CmdCall(cmd, fault, 0, <<>>, <<>>, "CancelledError", <<>>)
          ELSE IF fault = "OSError"
          THEN CmdCall(cmd, fault, 0, <<>>, <<>>, "none", command_failed(cmd, "OSError"))
          ELSE IF ~decode(stdout).ok \/ ~decode(stderr).ok
          THEN CmdCall(cmd, fault, rc, stdout, stderr, "none",
                       command_failed(cmd, "UnicodeDecodeError"))
          ELSE CmdCall(cmd, fault, rc, stdout, stderr, "none",
                       command_result(cmd, rc, decode(stderr).text, decode(stdout).text))
    /\ UNCHANGED <<treeVars, pyVars>>

NextCmd ==
    \/ \E c \in Cmds, f \in Faults \ {"none"} : ExecuteCommand(c, f, 0, <<>>, <<>>)
    \/ \E c \in Cmds, rc \in ExitCodes, out \in Streams, err \in ErrStreams :
          ExecuteCommand(c, "none", rc, out, err)

\* execute_command() alone.
SpecCmd == Init /\ [][NextCmd]_vars

\* C7: execute_command() raises no ordinary exception and returns a string:
\* for an exit code other than 0 the "failed with error code" message with the
\* code, stderr and stdout; for exit code 0 and stderr not empty the "executed
\* with stderr output" message; for exit code 0 and empty stderr the decoded
\* stdout itself; and the "failed with error" message when the process cannot
\* be started or read.
C7_CommandOutcomes ==
    cmd_ret.called =>
        LET c == cmd_ret
            out == decode(c.stdout)
            err == decode(c.stderr)
        IN /\ c.raised \in {"none", "CancelledError"}
           /\ c.raised = "CancelledError" <=> c.fault = "CancelledError"
           /\ c.fault = "OSError" =>
                 c.value = <<"Command '">> \o c.cmd \o <<"' failed with error: ", "OSError">>
           /\ (c.fault = "none" /\ ~(out.ok /\ err.ok)) =>
                 c.value = <<"Command '">> \o c.cmd
                           \o <<"' failed with error: ", "UnicodeDecodeError">>
           /\ (c.fault = "none" /\ out.ok /\ err.ok /\ c.rc # 0) =>
                 c.value = <<"Command '">> \o c.cmd
                           \o <<"' failed with error code ", str(c.rc), ":\nStderr:\n">>
                           \o err.text \o <<"\nStdout:\n">> \o out.text
           /\ (c.fault = "none" /\ out.ok /\ err.ok /\ c.rc = 0 /\ err.text # <<>>) =>
                 c.value = <<"Command executed with stderr output:\n">> \o err.text
                           \o <<"\nStdout:\n">> \o out.text
           /\ (c.fault = "none" /\ out.ok /\ err.ok /\ c.rc = 0 /\ err.text = <<>>) =>
                 c.value = out.text

\* C7's case: a command that exits with a code other than 0 and has written to
\* stderr and to stdout.
C7_Witness ==
    /\ cmd_ret.called
    /\ cmd_ret.fault = "none"
    /\ cmd_ret.rc # 0
    /\ cmd_ret.raised = "none"
    /\ decode(cmd_ret.stderr).ok /\ decode(cmd_ret.stderr).text # <<>>
    /\ decode(cmd_ret.stdout).ok /\ decode(cmd_ret.stdout).text # <<>>

\* --------------------------------------------------------------- run_python()
\* shutil.which(name): the interpreter is on PATH.
which(name) == IF name = "python" THEN host.python ELSE host.python3

\* mod.py:140-142: the name the fallback step selects.
bin_name == IF ~which("python") THEN "python3" ELSE "python"

\* mod.py:144: the program create_subprocess_exec is given.
exec_name == "python"

\* tempfile.NamedTemporaryFile picks a name no file of /tmp has.
mktemp == CHOOSE n \in 1 .. MaxTmp + 1 : n \notin tmpfiles

\* mod.py:156-160: the string of a script that ran and whose output decoded.
python_result(rc, error, output) ==
    IF rc # 0
    THEN <<"Python code execution failed with error code ", str(rc), ":\nStderr:\n">>
         \o error \o <<"\nStdout:\n">> \o output
    ELSE IF error # <<>>
    THEN <<"Python code executed with stderr output:\n">> \o error
         \o <<"\nStdout:\n">> \o output
    ELSE output

\* mod.py:166: the string of an exception caught.
python_failed(e) == <<"Failed to execute Python code: ", e>>

\* What may go wrong in a run_python() call: the temporary file cannot be
\* created; the text cannot be written (it is no str, the disk is full); the
\* interpreter cannot be started; the task is cancelled while it awaits the
\* interpreter.
PyFaults == {"none", "create", "write", "exec", "cancel"}

PyCall(fault, temp_filename, selected, executed, ran, rc, stdout, stderr, raised, value) ==
    [called |-> TRUE, fault |-> fault, temp_filename |-> temp_filename,
     bin_name |-> selected, executed |-> executed, ran |-> ran, rc |-> rc,
     stdout |-> stdout, stderr |-> stderr, raised |-> raised, value |-> value]

\* run_python(text), mod.py:134-166. temp_filename is bound at mod.py:138,
\* after the write, so the handler of mod.py:162-165 removes the file only for
\* what fails later; CancelledError is no Exception and skips the handler.
RunPython(fault, rc, stdout, stderr) ==
    /\ Cardinality(tmpfiles) < MaxTmp
    /\ LET f == mktemp
       IN IF fault = "create"
          THEN /\ tmpfiles' = tmpfiles
               /\ py_ret' = PyCall(fault, 0, "", "", FALSE, 0, <<>>, <<>>, "none",
                                   python_failed("OSError"))
          ELSE IF fault = "write"
          THEN /\ tmpfiles' = tmpfiles \cup {f}
               /\ py_ret' = PyCall(fault, f, "", "", FALSE, 0, <<>>, <<>>, "none",
                                   python_failed("TypeError"))
          ELSE IF ~which(exec_name)
          THEN /\ tmpfiles' = tmpfiles
               /\ py_ret' = PyCall(fault, f, bin_name, exec_name, FALSE, 0, <<>>, <<>>,
                                   "none", python_failed("FileNotFoundError"))
          ELSE IF fault = "exec"
          THEN /\ tmpfiles' = tmpfiles
               /\ py_ret' = PyCall(fault, f, bin_name, exec_name, FALSE, 0, <<>>, <<>>,
                                   "none", python_failed("OSError"))
          ELSE IF fault = "cancel"
          THEN /\ tmpfiles' = tmpfiles \cup {f}
               /\ py_ret' = PyCall(fault, f, bin_name, exec_name, TRUE, 0, <<>>, <<>>,
                                   "CancelledError", <<>>)
          ELSE IF ~decode(stdout).ok \/ ~decode(stderr).ok
          THEN /\ tmpfiles' = tmpfiles
               /\ py_ret' = PyCall(fault, f, bin_name, exec_name, TRUE, rc, stdout, stderr,
                                   "none", python_failed("UnicodeDecodeError"))
          ELSE /\ tmpfiles' = tmpfiles
               /\ py_ret' = PyCall(fault, f, bin_name, exec_name, TRUE, rc, stdout, stderr,
                                   "none",
                                   python_result(rc, decode(stderr).text, decode(stdout).text))
    /\ UNCHANGED <<treeVars, cmdVars, host>>

InitPy ==
    /\ InitShell
    /\ host \in [python : BOOLEAN, python3 : BOOLEAN]

NextPy ==
    \/ \E f \in PyFaults \ {"none"} : RunPython(f, 0, <<>>, <<>>)
    \/ \E rc \in ExitCodes, out \in Streams, err \in ErrStreams :
          RunPython("none", rc, out, err)

\* run_python() alone, on each kind of host.
SpecPy == InitPy /\ [][NextPy]_vars

\* C3: however a run_python() call ends once its temporary file is created,
\* the file is gone when the call has ended.
C3_TempFileRemoved ==
    (py_ret.called /\ py_ret.temp_filename # 0) => py_ret.temp_filename \notin tmpfiles

\* C9: the interpreter run_python() starts is the one its fallback step
\* selected, so on a host with python3 alone the script is run.
C9_FallbackInterpreterIsUsed ==
    (py_ret.called /\ py_ret.fault \notin {"create", "write"} /\ which(py_ret.bin_name)) =>
        /\ py_ret.executed = py_ret.bin_name
        /\ py_ret.fault = "none" => py_ret.ran

====
